---- MODULE Spec2Model ----
(***************************************************************************)
(* Model of cloud_addresses.py: main() fetches the advertised prefixes of  *)
(* six providers (retry_request with exponential backoff, one parser per   *)
(* provider), unions them per address family, collapses each union with    *)
(* ipaddress.collapse_addresses and writes one file per family.            *)
(*                                                                         *)
(* A network is a record [v, a, l]: version (4 or 6), network address as   *)
(* an integer of AddrBits bits, prefix length 0..AddrBits.  AddrBits       *)
(* stands for the family's _max_prefixlen (32 or 128).  A prefix text of a *)
(* provider document is such a record too; v = 0 is text that no parser    *)
(* accepts, and a text may carry host bits (a not aligned to l).           *)
(***************************************************************************)
EXTENDS Integers, Sequences, FiniteSets, TLC

VARIABLES
    \* ---- main() ----
    mpc,               \* position of main: "fetch", "collapse4", "collapse6",
                       \* "write", "done", or the exception that ended it
    cur,               \* index in ProviderOrder of the provider being fetched
    stage,             \* 1, or 2 for Azure's second request (the JSON file)
    attempt,           \* retry_request: the loop variable of the running call
    gets,              \* retry_request: requests.get calls made by the running call
    sleeps,            \* retry_request: the time.sleep arguments of the running call
    last_call,         \* what the last finished retry_request call did
    ipv4p, ipv6p,      \* union of the providers' sets fetched so far
    providers,         \* names appended to `providers`
    failed_providers,  \* names appended to `failed_providers`
    fetch_failed,      \* providers whose fetch function caught RequestException
    ipv4nets, ipv6nets,\* the collapsed lists
    files,             \* output files written
    \* ---- collapse_addresses() ----
    cpc,               \* "idle", "split", "merge", "done", "TypeError"
    addresses,         \* the argument (never mutated)
    to_merge,          \* [addrs, nets, top]: the list addrs + nets + pushed supernets
    subnets,           \* dict supernet -> net
    result,            \* the yielded list
    iters,             \* iterations of `while to_merge` so far
    n0,                \* len(to_merge) when the loop started
    \* ---- second application of collapse_addresses (algebraic properties) ----
    pass,              \* 1 or 2
    mode,              \* "none", "again" (same input), "re" (input = first output)
    first              \* the first application's input and output

vars == <<mpc, cur, stage, attempt, gets, sleeps, last_call, ipv4p, ipv6p,
          providers, failed_providers, fetch_failed, ipv4nets, ipv6nets, files,
          cpc, addresses, to_merge, subnets, result, iters, n0, pass, mode, first>>

mainVars == <<mpc, cur, stage, attempt, gets, sleeps, last_call, ipv4p, ipv6p,
              providers, failed_providers, fetch_failed, ipv4nets, ipv6nets, files>>

collapseVars == <<cpc, addresses, to_merge, subnets, result, iters, n0>>

harnessVars == <<pass, mode, first>>

(***************************************************************************)
(* Bounds                                                                  *)
(***************************************************************************)
AddrBits == 3

MaxNets == 3

MaxRecords == 2

(***************************************************************************)
(* Networks                                                                *)
(***************************************************************************)
ALL_ONES == 2^AddrBits - 1

Range(s) == {s[i] : i \in DOMAIN s}

Min(x, y) == IF x <= y THEN x ELSE y

NumAddresses(n) == 2^(AddrBits - n.l)

network_address(n) == n.a

broadcast_address(n) == n.a + NumAddresses(n) - 1

Hosts(n) == network_address(n)..broadcast_address(n)

Networks(v) ==
    {[v |-> v, a |-> a, l |-> l] :
        <<a, l>> \in {x \in (0..ALL_ONES) \X (0..AddrBits) :
                        x[1] % 2^(AddrBits - x[2]) = 0}}

Covered(S) == UNION {Hosts(n) : n \in S}

supernetNoMask(n) == [v |-> n.v, a |-> n.a, l |-> IF n.l = 0 THEN 0 ELSE n.l - 1]

\* _BaseNetwork.supernet(): /0 is its own supernet; otherwise the address is
\* masked with netmask << 1 and the prefix length drops by one.
supernet(n) ==
    IF n.l = 0 THEN n
    ELSE [v |-> n.v, a |-> n.a - (n.a % 2^(AddrBits - n.l + 1)), l |-> n.l - 1]

\* _BaseNetwork.__lt__ for two networks of one version.
NetLess(x, y) ==
    IF x.a # y.a THEN x.a < y.a ELSE x.l < y.l

RECURSIVE SortNets(_)
SortNets(S) ==
    IF S = {} THEN <<>>
    ELSE LET m == CHOOSE x \in S : \A y \in S \ {x} : NetLess(x, y)
         IN <<m>> \o SortNets(S \ {m})

RECURSIVE SortInts(_)
SortInts(S) ==
    IF S = {} THEN <<>>
    ELSE LET m == CHOOSE x \in S : \A y \in S : x <= y
         IN <<m>> \o SortInts(S \ {m})

RECURSIVE bit_length(_)
bit_length(n) == IF n = 0 THEN 0 ELSE 1 + bit_length(n \div 2)

RECURSIVE TrailingZeros(_)
TrailingZeros(n) == IF n % 2 = 1 THEN 0 ELSE 1 + TrailingZeros(n \div 2)

\* (~number & (number - 1)).bit_length() is the number of trailing zero bits.
count_righthand_zero_bits(number, bits) ==
    IF number = 0 THEN bits ELSE Min(bits, TrailingZeros(number))

\* _find_address_range over the sorted, deduplicated addresses ips (not empty):
\* the maximal runs of consecutive addresses, as <<first, last>> pairs.
RECURSIVE find_address_range(_, _, _, _)
find_address_range(ips, i, firstIp, lastIp) ==
    IF i > Len(ips) THEN << <<firstIp, lastIp>> >>
    ELSE IF ips[i] # lastIp + 1
         THEN << <<firstIp, lastIp>> >> \o find_address_range(ips, i + 1, ips[i], ips[i])
         ELSE find_address_range(ips, i + 1, firstIp, ips[i])

summarizeOneBitShort(v, first_int, last_int) ==
    IF first_int > last_int THEN <<>>
    ELSE << [v |-> v, a |-> first_int, l |-> AddrBits] >>

\* summarize_address_range(first, last): the networks spanning first..last.
RECURSIVE summarize_address_range(_, _, _)
summarize_address_range(v, first_int, last_int) ==
    IF first_int > last_int THEN <<>>
    ELSE LET nbits == Min(count_righthand_zero_bits(first_int, AddrBits),
                          bit_length(last_int - first_int + 1) - 1)
             net   == [v |-> v, a |-> first_int, l |-> AddrBits - nbits]
             nxt   == first_int + 2^nbits
         IN <<net>> \o (IF nxt - 1 = ALL_ONES THEN <<>>
                        ELSE summarize_address_range(v, nxt, last_int))

RECURSIVE SummarizeAll(_, _, _)
SummarizeAll(v, ranges, i) ==
    IF i > Len(ranges) THEN <<>>
    ELSE summarize_address_range(v, ranges[i][1], ranges[i][2])
            \o SummarizeAll(v, ranges, i + 1)

Versions(S) == {n.v : n \in S}

\* The split loop of collapse_addresses: networks of full prefix length go to
\* ips (as addresses), the others to nets; ips is sorted and deduplicated, its
\* runs are summarized into addrs.  The loop raises TypeError as soon as two
\* neighbours of ips, or of nets, differ in version: in any iteration order
\* that happens exactly when the list holds both versions.
SplitRaises(S) ==
    \/ Cardinality(Versions({n \in S : n.l = AddrBits})) > 1
    \/ Cardinality(Versions({n \in S : n.l < AddrBits})) > 1

SplitAddrs(S) ==
    LET hostNets == {n \in S : n.l = AddrBits}
        ips      == SortInts({n.a : n \in hostNets})
        v        == CHOOSE x \in Versions(hostNets) : TRUE
    IN IF hostNets = {} THEN <<>>
       ELSE SummarizeAll(v, find_address_range(ips, 2, ips[1], ips[1]), 1)

SplitNets(S) == {n \in S : n.l < AddrBits}

DictSet(d, k, x) == [y \in DOMAIN d \cup {k} |-> IF y = k THEN x ELSE d[y]]

DictDel(d, k) == [y \in DOMAIN d \ {k} |-> d[y]]

EmptyDict == [y \in {} |-> 0]

Values(d) == {d[k] : k \in DOMAIN d}

MergeOverwrite(sub, net) ==
    [subnets |-> DictSet(sub, supernet(net), net), push |-> <<>>]

MergeNoCascade(sub, net) ==
    LET s == supernet(net)
    IN IF s \notin DOMAIN sub THEN [subnets |-> DictSet(sub, s, net), push |-> <<>>]
       ELSE IF sub[s] # net
            THEN [subnets |-> DictSet(sub, s, s), push |-> <<>>]
            ELSE [subnets |-> sub, push |-> <<>>]

MergeRequeue(sub, net) ==
    LET s == supernet(net)
    IN IF s \notin DOMAIN sub THEN [subnets |-> DictSet(sub, s, net), push |-> <<>>]
       ELSE IF sub[s] # net
            THEN [subnets |-> DictDel(sub, s), push |-> <<s, net>>]
            ELSE [subnets |-> sub, push |-> <<>>]

\* The body of `while to_merge` for the popped net: file it under its supernet,
\* or, when the supernet already holds another net, drop that entry and push
\* the supernet on to_merge.
MergeBody(sub, net) ==
    LET s == supernet(net)
    IN IF s \notin DOMAIN sub THEN [subnets |-> DictSet(sub, s, net), push |-> <<>>]
       ELSE IF sub[s] # net
            THEN [subnets |-> DictDel(sub, s), push |-> <<s>>]
            ELSE [subnets |-> sub, push |-> <<>>]

YieldAll(sorted) == sorted

\* The final loop over sorted(subnets.values()): a net whose broadcast address
\* does not pass that of the last yielded net is skipped.
RECURSIVE SkipFrom(_, _, _)
SkipFrom(sorted, i, last) ==
    IF i > Len(sorted) THEN <<>>
    ELSE IF broadcast_address(last) >= broadcast_address(sorted[i])
         THEN SkipFrom(sorted, i + 1, last)
         ELSE <<sorted[i]>> \o SkipFrom(sorted, i + 1, sorted[i])

SkipSubsumed(sorted) ==
    IF sorted = <<>> THEN <<>>
    ELSE <<sorted[1]>> \o SkipFrom(sorted, 2, sorted[1])

ToMergeLen(t) == Len(t.addrs) + Cardinality(t.nets) + Len(t.top)

EmptyToMerge == [addrs |-> <<>>, nets |-> {}, top |-> <<>>]

(***************************************************************************)
(* collapse_addresses(addresses), step by step                             *)
(***************************************************************************)
\* to_merge is addrs + nets (nets in the iteration order of a set, which is
\* arbitrary) followed by the supernets pushed so far; pop() takes the last.
PopChoices(t) ==
    IF t.top # <<>> THEN {t.top[Len(t.top)]}
    ELSE IF t.nets # {} THEN t.nets
    ELSE {t.addrs[Len(t.addrs)]}

PopRest(t, net) ==
    IF t.top # <<>> THEN [t EXCEPT !.top = SubSeq(t.top, 1, Len(t.top) - 1)]
    ELSE IF t.nets # {} THEN [t EXCEPT !.nets = t.nets \ {net}]
    ELSE [t EXCEPT !.addrs = SubSeq(t.addrs, 1, Len(t.addrs) - 1)]

\* The split loop, sorted(set(ips)), the summaries, and to_merge = list(addrs + nets).
CollapseSplit ==
    /\ cpc = "split"
    /\ IF SplitRaises(addresses)
       THEN /\ cpc' = "TypeError"
            /\ UNCHANGED <<to_merge, n0>>
       ELSE /\ cpc' = "merge"
            /\ to_merge' = [addrs |-> SplitAddrs(addresses),
                            nets  |-> SplitNets(addresses),
                            top   |-> <<>>]
            /\ n0' = ToMergeLen(to_merge')
    /\ subnets' = EmptyDict
    /\ iters' = 0
    /\ result' = <<>>
    /\ UNCHANGED <<addresses>>

\* One iteration of `while to_merge`.
CollapseMerge ==
    /\ cpc = "merge"
    /\ ToMergeLen(to_merge) > 0
    /\ \E net \in PopChoices(to_merge) :
          LET r == MergeBody(subnets, net)
              rest == PopRest(to_merge, net)
          IN /\ subnets' = r.subnets
             /\ to_merge' = [rest EXCEPT !.top = rest.top \o r.push]
    /\ iters' = iters + 1
    /\ UNCHANGED <<cpc, addresses, result, n0>>

\* The loop over sorted(subnets.values()); sorting networks of two versions
\* raises TypeError in __lt__.
CollapseYield ==
    /\ cpc = "merge"
    /\ ToMergeLen(to_merge) = 0
    /\ IF Cardinality(Versions(Values(subnets))) > 1
       THEN /\ cpc' = "TypeError"
            /\ UNCHANGED result
       ELSE /\ cpc' = "done"
            /\ result' = SkipSubsumed(SortNets(Values(subnets)))
    /\ UNCHANGED <<addresses, to_merge, subnets, iters, n0>>

CollapseStep == CollapseSplit \/ CollapseMerge \/ CollapseYield

(***************************************************************************)
(* Aggregation alone: line 315 on an arbitrary union of one family, then a *)
(* second application, to the same set or to the first output.             *)
(***************************************************************************)
RECURSIVE SubsetsUpTo(_, _)
SubsetsUpTo(S, k) ==
    IF k = 0 THEN {{}}
    ELSE LET P == SubsetsUpTo(S, k - 1)
         IN P \cup {T \cup {x} : T \in P, x \in S}

InputSets == SubsetsUpTo(Networks(4), MaxNets)

InitAgg ==
    /\ mpc = "collapse4"
    /\ cur = 7
    /\ stage = 1
    /\ attempt = 0
    /\ gets = 0
    /\ sleeps = <<>>
    /\ last_call = [gets |-> 0, sleeps |-> <<>>, ok |-> TRUE]
    /\ ipv4p \in InputSets
    /\ ipv6p = {}
    /\ providers = {}
    /\ failed_providers = {}
    /\ fetch_failed = {}
    /\ ipv4nets = <<>>
    /\ ipv6nets = <<>>
    /\ files = EmptyDict
    /\ cpc = "split"
    /\ addresses = ipv4p
    /\ to_merge = EmptyToMerge
    /\ subnets = EmptyDict
    /\ result = <<>>
    /\ iters = 0
    /\ n0 = 0
    /\ pass = 1
    /\ mode = "none"
    /\ first = [input |-> {}, output |-> {}]

CollapseAgain ==
    /\ cpc = "done"
    /\ pass = 1
    /\ pass' = 2
    /\ mode' = "again"
    /\ first' = [input |-> addresses, output |-> Range(result)]
    /\ cpc' = "split"
    /\ UNCHANGED <<addresses, to_merge, subnets, result, iters, n0>>
    /\ UNCHANGED mainVars

CollapseOutput ==
    /\ cpc = "done"
    /\ pass = 1
    /\ pass' = 2
    /\ mode' = "re"
    /\ first' = [input |-> addresses, output |-> Range(result)]
    /\ addresses' = Range(result)
    /\ cpc' = "split"
    /\ UNCHANGED <<to_merge, subnets, result, iters, n0>>
    /\ UNCHANGED mainVars

AggStep == CollapseStep /\ UNCHANGED mainVars /\ UNCHANGED harnessVars

NextAgg == AggStep \/ CollapseAgain \/ CollapseOutput

SpecAgg == InitAgg /\ [][NextAgg]_vars

(***************************************************************************)
(* Provider documents and parsing                                          *)
(***************************************************************************)
MAX_RETRIES == 3

RETRY_BACKOFF_BASE == 2

ProviderOrder == <<"AWS", "Azure", "GCP", "DigitalOcean", "Oracle", "Linode">>

AllProviders == Range(ProviderOrder)

IPV4_FILE == "cloud_networks_4.json"

IPV6_FILE == "cloud_networks_6.json"

\* Prefix texts a provider document may hold: an IPv4 network, its sibling
\* written with a host bit set, an IPv6 network, and text that is no network
\* at all.
NetA == [v |-> 4, a |-> 0, l |-> AddrBits - 1]

TextHostBits == [v |-> 4, a |-> 3, l |-> AddrBits - 1]

NetB == [v |-> 6, a |-> 0, l |-> AddrBits - 1]

BadText == [v |-> 0, a |-> 0, l |-> 0]

Texts == {NetA, TextHostBits, NetB, BadText}

\* A record of a document: the prefix text and the field it stands in (AWS:
\* "prefixes"/"ip_prefix" or "ipv6_prefixes"/"ipv6_prefix"; GCP: the key
\* "ipv4Prefix" or "ipv6Prefix"); the other providers' documents have one
\* column of prefixes, field 0.
ByField(p) == p \in {"AWS", "GCP"}

Records(p) == [field : IF ByField(p) THEN {4, 6} ELSE {0}, text : Texts]

RECURSIVE SeqsUpTo(_, _)
SeqsUpTo(S, k) ==
    IF k = 0 THEN {<<>>}
    ELSE LET P == SeqsUpTo(S, k - 1)
         IN P \cup {Append(q, x) : q \in P, x \in S}

Docs(p) == SeqsUpTo(Records(p), MaxRecords)

\* ip_network(text, strict): the network, or BadText for ValueError (text that
\* is no network, or host bits set under strict=True).
ip_network(text, strict) ==
    IF text.v = 0 THEN BadText
    ELSE LET hostbits == text.a % 2^(AddrBits - text.l)
         IN IF hostbits = 0 THEN text
            ELSE IF strict THEN BadText
            ELSE [text EXCEPT !.a = text.a - hostbits]

Parsed(doc, strict) == {ip_network(doc[i].text, strict) : i \in DOMAIN doc}

\* fetch_aws_ip_ranges / fetch_gcp_ip_ranges: one set comprehension per field,
\* ip_network unguarded, so any ValueError leaves the function.
FieldRaises(doc) == \E i \in DOMAIN doc : ip_network(doc[i].text, TRUE).v = 0

FieldSet(doc, f) == {ip_network(doc[i].text, TRUE) : i \in {j \in DOMAIN doc : doc[j].field = f}}

\* Azure, DigitalOcean, Oracle, Linode: ip_network inside try/except ValueError
\* (continue), the network filed by network.version.  Linode parses with
\* strict=False (its comment lines, skipped before parsing, are left out).
Strict(p) == p # "Linode"

VersionSet(doc, p, v) == {n \in Parsed(doc, Strict(p)) : n.v = v}

ParseRaises(p, doc) == ByField(p) /\ FieldRaises(doc)

Parse4(p, doc) == IF ByField(p) THEN FieldSet(doc, 4) ELSE VersionSet(doc, p, 4)

Parse6(p, doc) == IF ByField(p) THEN FieldSet(doc, 6) ELSE VersionSet(doc, p, 6)

HasNextAttemptOffByOne(att) == att < MAX_RETRIES

\* retry_request: the wait before the next attempt, and whether there is one.
wait_time(att) == RETRY_BACKOFF_BASE ^ att

HasNextAttempt(att) == att < MAX_RETRIES - 1

\* main: a provider is appended to failed_providers when both sets are empty.
ListedFailed(s4, s6) == Cardinality(s4) = 0 /\ Cardinality(s6) = 0

str(n) == <<n.v, n.a, n.l>>

StrList(nets) == [i \in DOMAIN nets |-> str(nets[i])]

(***************************************************************************)
(* main()                                                                  *)
(***************************************************************************)
Provider == ProviderOrder[cur]

Init ==
    /\ mpc = "fetch"
    /\ cur = 1
    /\ stage = 1
    /\ attempt = 0
    /\ gets = 0
    /\ sleeps = <<>>
    /\ last_call = [gets |-> 0, sleeps |-> <<>>, ok |-> TRUE]
    /\ ipv4p = {}
    /\ ipv6p = {}
    /\ providers = {}
    /\ failed_providers = {}
    /\ fetch_failed = {}
    /\ ipv4nets = <<>>
    /\ ipv6nets = <<>>
    /\ files = EmptyDict
    /\ cpc = "idle"
    /\ addresses = {}
    /\ to_merge = EmptyToMerge
    /\ subnets = EmptyDict
    /\ result = <<>>
    /\ iters = 0
    /\ n0 = 0
    /\ pass = 1
    /\ mode = "none"
    /\ first = [input |-> {}, output |-> {}]

\* The fetch function of the current provider returns (s4, s6); main appends
\* to providers and failed_providers and goes on to the next provider.
Return(s4, s6) ==
    /\ ipv4p' = ipv4p \cup s4
    /\ ipv6p' = ipv6p \cup s6
    /\ providers' = providers \cup {Provider}
    /\ failed_providers' =
          IF ListedFailed(s4, s6) THEN failed_providers \cup {Provider}
          ELSE failed_providers
    /\ stage' = 1
    /\ IF cur < Len(ProviderOrder)
       THEN cur' = cur + 1 /\ mpc' = "fetch"
       ELSE cur' = cur /\ mpc' = "collapse4"

NewCall ==
    /\ attempt' = 0
    /\ gets' = 0
    /\ sleeps' = <<>>

\* requests.get (or raise_for_status) raises and another attempt follows.
GetFailRetry ==
    /\ mpc = "fetch"
    /\ HasNextAttempt(attempt)
    /\ sleeps' = Append(sleeps, wait_time(attempt))
    /\ attempt' = attempt + 1
    /\ gets' = gets + 1
    /\ UNCHANGED <<mpc, cur, stage, last_call, ipv4p, ipv6p, providers,
                   failed_providers, fetch_failed, ipv4nets, ipv6nets, files>>
    /\ UNCHANGED collapseVars
    /\ UNCHANGED harnessVars

\* The last attempt raises: retry_request raises, the fetch function catches
\* RequestException and returns the sets it has (empty).
GetFailLast ==
    /\ mpc = "fetch"
    /\ ~HasNextAttempt(attempt)
    /\ last_call' = [gets |-> gets + 1, sleeps |-> sleeps, ok |-> FALSE]
    /\ fetch_failed' = fetch_failed \cup {Provider}
    /\ NewCall
    /\ Return({}, {})
    /\ UNCHANGED <<ipv4nets, ipv6nets, files>>
    /\ UNCHANGED collapseVars
    /\ UNCHANGED harnessVars

\* Azure's download page arrives; the regular expression finds the JSON URL
\* (a second retry_request follows) or does not (the empty sets are returned).
GetAzurePage ==
    /\ mpc = "fetch"
    /\ Provider = "Azure"
    /\ stage = 1
    /\ last_call' = [gets |-> gets + 1, sleeps |-> sleeps, ok |-> TRUE]
    /\ NewCall
    /\ \E found \in BOOLEAN :
          IF found
          THEN /\ stage' = 2
               /\ UNCHANGED <<mpc, cur, ipv4p, ipv6p, providers, failed_providers>>
          ELSE Return({}, {})
    /\ UNCHANGED <<fetch_failed, ipv4nets, ipv6nets, files>>
    /\ UNCHANGED collapseVars
    /\ UNCHANGED harnessVars

\* The provider's document arrives and is parsed.
GetDocument ==
    /\ mpc = "fetch"
    /\ Provider = "Azure" => stage = 2
    /\ last_call' = [gets |-> gets + 1, sleeps |-> sleeps, ok |-> TRUE]
    /\ NewCall
    /\ \E doc \in Docs(Provider) :
          IF ParseRaises(Provider, doc)
          THEN /\ mpc' = "ValueError"
               /\ UNCHANGED <<cur, stage, ipv4p, ipv6p, providers, failed_providers>>
          ELSE Return(Parse4(Provider, doc), Parse6(Provider, doc))
    /\ UNCHANGED <<fetch_failed, ipv4nets, ipv6nets, files>>
    /\ UNCHANGED collapseVars
    /\ UNCHANGED harnessVars

\* list(collapse_addresses(ipv4p)), then list(collapse_addresses(ipv6p)).
CollapseCall ==
    /\ mpc \in {"collapse4", "collapse6"}
    /\ cpc = "idle"
    /\ addresses' = IF mpc = "collapse4" THEN ipv4p ELSE ipv6p
    /\ cpc' = "split"
    /\ UNCHANGED <<to_merge, subnets, result, iters, n0>>
    /\ UNCHANGED mainVars
    /\ UNCHANGED harnessVars

CollapseReturn ==
    /\ mpc \in {"collapse4", "collapse6"}
    /\ cpc = "done"
    /\ cpc' = "idle"
    /\ IF mpc = "collapse4"
       THEN ipv4nets' = result /\ mpc' = "collapse6" /\ UNCHANGED ipv6nets
       ELSE ipv6nets' = result /\ mpc' = "write" /\ UNCHANGED ipv4nets
    /\ UNCHANGED <<cur, stage, attempt, gets, sleeps, last_call, ipv4p, ipv6p,
                   providers, failed_providers, fetch_failed, files>>
    /\ UNCHANGED <<addresses, to_merge, subnets, result, iters, n0>>
    /\ UNCHANGED harnessVars

CollapseRaise ==
    /\ mpc \in {"collapse4", "collapse6"}
    /\ cpc = "TypeError"
    /\ mpc' = "TypeError"
    /\ UNCHANGED <<cur, stage, attempt, gets, sleeps, last_call, ipv4p, ipv6p,
                   providers, failed_providers, fetch_failed, ipv4nets, ipv6nets, files>>
    /\ UNCHANGED collapseVars
    /\ UNCHANGED harnessVars

\* write_networks(ipv4nets, IPV4_FILE); write_networks(ipv6nets, IPV6_FILE)
WriteNetworks ==
    /\ mpc = "write"
    /\ files' = DictSet(DictSet(files, IPV4_FILE, StrList(ipv4nets)),
                        IPV6_FILE, StrList(ipv6nets))
    /\ mpc' = "done"
    /\ UNCHANGED <<cur, stage, attempt, gets, sleeps, last_call, ipv4p, ipv6p,
                   providers, failed_providers, fetch_failed, ipv4nets, ipv6nets>>
    /\ UNCHANGED collapseVars
    /\ UNCHANGED harnessVars

Next ==
    \/ GetFailRetry
    \/ GetFailLast
    \/ GetAzurePage
    \/ GetDocument
    \/ CollapseCall
    \/ AggStep
    \/ CollapseReturn
    \/ CollapseRaise
    \/ WriteNetworks

Spec == Init /\ [][Next]_vars

(***************************************************************************)
(* Properties of the aggregation (checked under SpecAgg)                   *)
(***************************************************************************)
Output == Range(result)

Overlap(x, y) == Hosts(x) \cap Hosts(y) # {}

\* The two halves of one block of twice their size.
Siblings(x, y) ==
    /\ x # y
    /\ x.v = y.v
    /\ x.l = y.l
    /\ x.l > 0
    /\ x.a \div (2 * NumAddresses(x)) = y.a \div (2 * NumAddresses(y))

Parent(x) == [v |-> x.v, a |-> (x.a \div (2 * NumAddresses(x))) * 2 * NumAddresses(x), l |-> x.l - 1]

\* C1: coverage preservation.  When collapse_addresses has returned, the
\* addresses covered by its output are exactly those covered by its input.
C1_CoveragePreserved ==
    cpc = "done" => Covered(Output) = Covered(addresses)

\* A sibling pair and a third prefix whose sibling is missing: the pair is
\* merged, the third prefix stays as it is (scenario 4).
C1_Witness ==
    /\ cpc = "done"
    /\ \E x \in addresses, y \in addresses, z \in addresses :
          /\ addresses = {x, y, z}
          /\ Siblings(x, y)
          /\ z.l = x.l
          /\ Siblings(Parent(z), Parent(x))
          /\ Output = {Parent(x), z}

\* C2: disjointness.  No two blocks of the output share an address (and the
\* output list names no block twice); an input holding the whole address
\* space is collapsed to that one block.
C2_Disjoint ==
    cpc = "done" =>
        /\ \A i \in DOMAIN result, j \in DOMAIN result :
              i # j => ~Overlap(result[i], result[j])
        /\ \A n \in addresses : n.l = 0 => result = <<n>>

\* Two siblings whose merged parent lies inside a shorter prefix of the
\* input: only the shorter prefix is returned.
C2_Witness ==
    /\ cpc = "done"
    /\ \E x \in addresses, y \in addresses, q \in addresses :
          /\ addresses = {x, y, q}
          /\ Siblings(x, y)
          /\ q.l < x.l - 1
          /\ Hosts(x) \subseteq Hosts(q)
          /\ result = <<q>>

\* C3: minimality.  The output never holds both halves of one parent, and
\* the parent of every sibling pair of the input lies within one output block.
C3_NoSiblingPair ==
    cpc = "done" =>
        /\ \A x \in Output, y \in Output : ~Siblings(x, y)
        /\ \A x \in addresses, y \in addresses :
              Siblings(x, y) => \E o \in Output : Hosts(Parent(x)) \subseteq Hosts(o)

\* A cascade over two levels: three disjoint prefixes merged into the
\* grandparent of the longest ones.
C3_Witness ==
    /\ cpc = "done"
    /\ Cardinality(addresses) = 3
    /\ \A x \in addresses, y \in addresses : x # y => ~Overlap(x, y)
    /\ Len(result) = 1
    /\ \E x \in addresses : x.l = result[1].l + 2 /\ x.l < AddrBits

\* C4: idempotence.  Collapsing the output of a collapse returns that output
\* again, and the empty set is collapsed to the empty list.
C4_Idempotent ==
    /\ (cpc = "done" /\ pass = 2 /\ mode = "re") => Output = first.output
    /\ (cpc = "done" /\ addresses = {}) => result = <<>>

C4_Witness ==
    /\ cpc = "done"
    /\ pass = 2
    /\ mode = "re"
    /\ first.output # first.input
    /\ Cardinality(first.output) >= 2
    /\ iters > 0

\* C5: order independence.  Two collapses of the same set, each popping the
\* prefixes in an order of its own, return the same set.
C5_OrderIndependent ==
    (cpc = "done" /\ pass = 2 /\ mode = "again") => Output = first.output

C5_Witness ==
    /\ cpc = "done"
    /\ pass = 2
    /\ mode = "again"
    /\ Cardinality(SplitNets(addresses)) = 3
    /\ Cardinality(Output) = 1

Count == ToMergeLen(to_merge) + Cardinality(DOMAIN subnets)

C6_Variant ==
    /\ cpc \in {"merge", "done"} =>
          /\ iters + 2 * ToMergeLen(to_merge) + Cardinality(DOMAIN subnets) <= 2 * n0
          /\ Count <= n0
          /\ n0 > 0 => iters <= 2 * n0 - 1
    /\ (cpc = "merge" /\ ToMergeLen(to_merge) > 0) => PopChoices(to_merge) # {}

C6_Iteration ==
    (cpc = "merge" /\ cpc' = "merge" /\ iters' = iters + 1) =>
        /\ Count' <= Count
        /\ to_merge'.top # <<>> => Count' < Count

Backoff == [i \in 1..(MAX_RETRIES - 1) |-> RETRY_BACKOFF_BASE ^ (i - 1)]

C7_Calls ==
    /\ ~last_call.ok =>
          /\ last_call.gets = MAX_RETRIES
          /\ last_call.gets = 3
          /\ last_call.sleeps = <<1, 2>>
          /\ last_call.sleeps = Backoff
    /\ last_call.ok /\ last_call.gets > 0 =>
          /\ last_call.gets <= MAX_RETRIES
          /\ last_call.sleeps = SubSeq(Backoff, 1, last_call.gets - 1)
    /\ gets = attempt /\ attempt < MAX_RETRIES
    /\ sleeps = SubSeq(Backoff, 1, attempt)
    /\ fetch_failed \subseteq providers
    /\ mpc \in {"collapse4", "collapse6", "write", "done"} => providers = AllProviders
    /\ mpc = "done" =>
          /\ DOMAIN files = {IPV4_FILE, IPV6_FILE}
          /\ files[IPV4_FILE] = StrList(ipv4nets)
          /\ files[IPV6_FILE] = StrList(ipv6nets)
          /\ Covered(Range(ipv4nets)) = Covered(ipv4p)
          /\ Covered(Range(ipv6nets)) = Covered(ipv6p)
          /\ Versions(Range(ipv4nets)) = Versions(ipv4p)
          /\ Versions(Range(ipv6nets)) = Versions(ipv6p)

C7_Exhausted ==
    fetch_failed' # fetch_failed =>
        /\ fetch_failed' = fetch_failed \cup {Provider}
        /\ gets = MAX_RETRIES - 1
        /\ ipv4p' = ipv4p
        /\ ipv6p' = ipv6p
        /\ providers' = providers \cup {Provider}
        /\ IF cur < Len(ProviderOrder)
           THEN mpc' = "fetch" /\ cur' = cur + 1
           ELSE mpc' = "collapse4"

\* C7: a provider whose every GET fails is tried MAX_RETRIES (3) times with
\* waits of 1 and 2 seconds between the attempts and none after the last;
\* its fetch function then returns two empty sets and main goes on to the
\* next provider (to the aggregation after the last one); a run that reaches
\* its end has fetched all six providers and written both files with the
\* collapsed unions.  A successful attempt ends the retries at once.
C7_RetryThenDegrade == []C7_Calls /\ [][C7_Exhausted]_vars

\* Azure failed three times, other providers announced two siblings, and the
\* run wrote both files, the IPv4 one with the merged block.
C7_Witness ==
    /\ mpc = "done"
    /\ "Azure" \in fetch_failed
    /\ "Azure" \in failed_providers
    /\ ipv4p = {NetA, ip_network(TextHostBits, FALSE)}
    /\ files[IPV4_FILE] = <<str(supernet(NetA))>>

\* C8 as claimed: a record whose prefix text does not parse is skipped and
\* no fetch function raises.
C8_NoFetchFunctionRaises == mpc # "ValueError"

\* C9 as claimed: a fetched provider is listed in failed_providers if and
\* only if its fetch failed after the retries were exhausted.
C9_FailedIffFetchFailed ==
    \A p \in providers : p \in failed_providers <=> p \in fetch_failed

\* C10 as claimed: the IPv4 union holds IPv4 networks only and the IPv6 union
\* IPv6 networks only, and so does every argument of collapse_addresses.
C10_SingleFamily ==
    /\ \A n \in ipv4p : n.v = 4
    /\ \A n \in ipv6p : n.v = 6
    /\ (mpc = "collapse4" /\ cpc # "idle") => \A n \in addresses : n.v = 4
    /\ (mpc = "collapse6" /\ cpc # "idle") => \A n \in addresses : n.v = 6

====
